---- MODULE Spec2Model ----
(***************************************************************************)
(* Model of app.py: the Streamlit phishing-detection page.  A URL is a     *)
(* sequence of one-character strings; every string operation of the source *)
(* (strip, lower, in, count, startswith, urlparse) is computed on that     *)
(* sequence.  One press of the "Predict" button runs the script body of    *)
(* lines 104-182; pc is the position inside that body.                     *)
(***************************************************************************)
EXTENDS Integers, Sequences, FiniteSets, TLC

VARIABLES url_input, pc, domain, features, probability, risk, reasons,
          out, calls, exc, stages, prev, clicks

vars == <<url_input, pc, domain, features, probability, risk, reasons,
          out, calls, exc, stages, prev, clicks>>

(* Number of presses of the Predict button explored in one behaviour. *)
MaxClicks == 2

----------------------------------------------------------------------------
(* Rule tables, lines 18-39. *)

TRUSTED_DOMAINS ==
  { <<"g", "o", "o", "g", "l", "e", ".", "c", "o", "m">>, <<"y", "o", "u", "t", "u", "b", "e", ".", "c", "o", "m">>, <<"a", "m", "a", "z", "o", "n", ".", "c", "o", "m">>, <<"w", "i", "k", "i", "p", "e", "d", "i", "a", ".", "o", "r", "g">>,
    <<"g", "i", "t", "h", "u", "b", ".", "c", "o", "m">>, <<"s", "t", "r", "e", "a", "m", "l", "i", "t", ".", "i", "o">>, <<"m", "i", "c", "r", "o", "s", "o", "f", "t", ".", "c", "o", "m">>,
    <<"a", "p", "p", "l", "e", ".", "c", "o", "m">>, <<"l", "i", "n", "k", "e", "d", "i", "n", ".", "c", "o", "m">> }

PLATFORM_DOMAINS ==
  { <<"y", "o", "u", "t", "u", "b", "e", ".", "c", "o", "m">>, <<"g", "i", "t", "h", "u", "b", ".", "c", "o", "m">>, <<"t", "w", "i", "t", "t", "e", "r", ".", "c", "o", "m">>,
    <<"f", "a", "c", "e", "b", "o", "o", "k", ".", "c", "o", "m">>, <<"i", "n", "s", "t", "a", "g", "r", "a", "m", ".", "c", "o", "m">>, <<"n", "e", "t", "f", "l", "i", "x", ".", "c", "o", "m">> }

LOCAL_PHISHING_BLACKLIST_short ==
  { <<"b", "a", "n", "k", "-", "v", "e", "r", "i", "f", "i", "c", "a", "t", "i", "o", "n", "-", "a", "l", "e", "r", "t", "-", "l", "o", "g", "i", "n", ".", "c", "o", "m">>,
    <<"a", "c", "c", "o", "u", "n", "t", "-", "s", "e", "c", "u", "r", "i", "t", "y", "-", "c", "h", "e", "c", "k", "-", "n", "o", "w", ".", "c", "o", "m">> }

LOCAL_PHISHING_BLACKLIST ==
  { <<"s", "e", "c", "u", "r", "e", "-", "l", "o", "g", "i", "n", "-", "p", "a", "y", "p", "a", "l", "-", "u", "p", "d", "a", "t", "e", ".", "c", "o", "m">>,
    <<"b", "a", "n", "k", "-", "v", "e", "r", "i", "f", "i", "c", "a", "t", "i", "o", "n", "-", "a", "l", "e", "r", "t", "-", "l", "o", "g", "i", "n", ".", "c", "o", "m">>,
    <<"a", "c", "c", "o", "u", "n", "t", "-", "s", "e", "c", "u", "r", "i", "t", "y", "-", "c", "h", "e", "c", "k", "-", "n", "o", "w", ".", "c", "o", "m">> }

suspicious_keywords == { <<"s", "e", "c", "u", "r", "e">>, <<"l", "o", "g", "i", "n">>, <<"v", "e", "r", "i", "f", "y">>, <<"u", "p", "d", "a", "t", "e">> }

sensitive_words ==
  << <<"l", "o", "g", "i", "n">>, <<"v", "e", "r", "i", "f", "y">>, <<"b", "a", "n", "k">>, <<"s", "e", "c", "u", "r", "e">>, <<"a", "c", "c", "o", "u", "n", "t">>, <<"u", "p", "d", "a", "t", "e">> >>

----------------------------------------------------------------------------
(* String primitives of the Python runtime, on character sequences. *)

UpperToLower ==
  [c \in {"A","B","C","D","E","F","G","H","I","J","K","L","M","N","O","P","Q",
          "R","S","T","U","V","W","X","Y","Z"} |->
     CASE c = "A" -> "a" [] c = "B" -> "b" [] c = "C" -> "c" [] c = "D" -> "d"
       [] c = "E" -> "e" [] c = "F" -> "f" [] c = "G" -> "g" [] c = "H" -> "h"
       [] c = "I" -> "i" [] c = "J" -> "j" [] c = "K" -> "k" [] c = "L" -> "l"
       [] c = "M" -> "m" [] c = "N" -> "n" [] c = "O" -> "o" [] c = "P" -> "p"
       [] c = "Q" -> "q" [] c = "R" -> "r" [] c = "S" -> "s" [] c = "T" -> "t"
       [] c = "U" -> "u" [] c = "V" -> "v" [] c = "W" -> "w" [] c = "X" -> "x"
       [] c = "Y" -> "y" [] c = "Z" -> "z"]

(* str.lower() *)
Lower(s) ==
  [i \in 1..Len(s) |-> IF s[i] \in DOMAIN UpperToLower THEN UpperToLower[s[i]]
                       ELSE s[i]]

Whitespace == {" ", "\t", "\n", "\r"}

(* str.strip(): drop leading and trailing whitespace. *)
Strip(s) ==
  LET idx == {i \in 1..Len(s) : s[i] \notin Whitespace}
  IN  IF idx = {} THEN <<>>
      ELSE LET lo == CHOOSE i \in idx : \A j \in idx : i <= j
               hi == CHOOSE i \in idx : \A j \in idx : j <= i
           IN  SubSeq(s, lo, hi)

(* w occurs in s at position i *)
MatchAt(s, w, i) == i + Len(w) - 1 <= Len(s) /\ SubSeq(s, i, i + Len(w) - 1) = w

(* the "in" operator on strings: w in s *)
Contains(s, w) == \E i \in 1..(Len(s) + 1) : MatchAt(s, w, i)

(* str.count(w): number of non-overlapping occurrences, scanning left to right *)
RECURSIVE CountFrom(_, _, _)
CountFrom(s, w, i) ==
  IF i + Len(w) - 1 > Len(s) THEN 0
  ELSE IF MatchAt(s, w, i) THEN 1 + CountFrom(s, w, i + Len(w))
  ELSE CountFrom(s, w, i + 1)

Count(s, w) == CountFrom(s, w, 1)

(* str.startswith(w) *)
StartsWith(s, w) == MatchAt(s, w, 1)

(* str.find(c) for a character c, 1-based; 0 when absent *)
Find(s, c) ==
  IF \E i \in 1..Len(s) : s[i] = c
  THEN CHOOSE i \in 1..Len(s) : s[i] = c /\ \A j \in 1..(i - 1) : s[j] # c
  ELSE 0

Tail_(s, i) == SubSeq(s, i, Len(s))

----------------------------------------------------------------------------
(* urllib.parse.urlparse as called at lines 62 and 108: the scheme is the   *)
(* prefix before the first ":" when it is made of scheme characters, the   *)
(* netloc is what follows "//" up to the first of "/", "?", "#", and the   *)
(* path is the rest up to the first "#" or "?".  A netloc with an unmatched *)
(* square bracket makes the call raise ValueError("Invalid IPv6 URL").     *)

Letters == DOMAIN UpperToLower \cup {UpperToLower[c] : c \in DOMAIN UpperToLower}

SchemeChars ==
  Letters \cup {"0","1","2","3","4","5","6","7","8","9","+","-","."}

(* first position of s holding a character of cs, Len(s)+1 when there is none *)
FirstOf(s, cs) ==
  IF \E i \in 1..Len(s) : s[i] \in cs
  THEN CHOOSE i \in 1..Len(s) : s[i] \in cs /\ \A j \in 1..(i - 1) : s[j] \notin cs
  ELSE Len(s) + 1

LStrip(s) == Tail_(s, FirstOf(s, {c \in {s[i] : i \in 1..Len(s)} : c \notin Whitespace}))

urlparse(raw) ==
  LET url       == SelectSeq(LStrip(raw), LAMBDA c : c \notin {"\t", "\n", "\r"})
      i         == Find(url, ":")
      hasScheme == /\ i > 1
                   /\ url[1] \in Letters
                   /\ \A j \in 1..(i - 1) : url[j] \in SchemeChars
      scheme    == IF hasScheme THEN Lower(SubSeq(url, 1, i - 1)) ELSE <<>>
      rest1     == IF hasScheme THEN Tail_(url, i + 1) ELSE url
      hasNetloc == StartsWith(rest1, <<"/", "/">>)
      after     == Tail_(rest1, 3)
      delim     == FirstOf(after, {"/", "?", "#"})
      netloc    == IF hasNetloc THEN SubSeq(after, 1, delim - 1) ELSE <<>>
      rest2     == IF hasNetloc THEN Tail_(after, delim) ELSE rest1
      rest3     == SubSeq(rest2, 1, FirstOf(rest2, {"#"}) - 1)
      path      == SubSeq(rest3, 1, FirstOf(rest3, {"?"}) - 1)
      open      == \E k \in 1..Len(netloc) : netloc[k] = "["
      close     == \E k \in 1..Len(netloc) : netloc[k] = "]"
  IN  [raised |-> hasNetloc /\ (open # close),
       scheme |-> scheme, netloc |-> netloc, path |-> path]

----------------------------------------------------------------------------
(* is_new_domain, lines 44-50 *)
is_new_domain(d) == \E k \in suspicious_keywords : Contains(d, k)

(* get_risk_level, lines 55-56; a probability is kept in hundredths *)
get_risk_level_strict(prob) == IF prob > 50 THEN "HIGH RISK" ELSE "LOW RISK"

get_risk_level(prob) == IF prob >= 50 THEN "HIGH RISK" ELSE "LOW RISK"

RECURSIVE SumCounts(_, _, _)
SumCounts(s, ws, k) ==
  IF k > Len(ws) THEN 0 ELSE Count(s, ws[k]) + SumCounts(s, ws, k + 1)

(* extract_features, lines 61-86: the 13 fields in the order of the return  *)
(* statement; the call raises when urlparse (line 62) raises.              *)
extract_features(url) ==
  LET parsed == urlparse(url)
      low    == Lower(url)
  IN  [raised |-> parsed.raised,
       vec |-> IF parsed.raised THEN <<>>
               ELSE << Len(url),
                       IF StartsWith(url, <<"h", "t", "t", "p">>) THEN 1 ELSE 0,
                       IF Contains(url, <<"@">>) THEN 1 ELSE 0,
                       SumCounts(low, sensitive_words, 1),
                       Len(parsed.path),
                       IF parsed.scheme = <<"h", "t", "t", "p", "s">> THEN 1 ELSE 0,
                       Count(url, <<".">>),
                       Count(url, <<"-">>),
                       Count(low, <<"a", "n", "d">>),
                       Count(low, <<"o", "r">>),
                       Count(low, <<"w", "w", "w">>),
                       Count(low, <<".", "c", "o", "m">>),
                       Count(url, <<"_">>) >>]

(* Explainability, lines 165-176: the reasons in the order they are appended *)
Reasons_ge(f) ==
     (IF f[3] # 0 THEN <<"Contains '@' symbol">> ELSE <<>>)
  \o (IF f[6] = 0 THEN <<"Does not use HTTPS">> ELSE <<>>)
  \o (IF f[4] > 0 THEN <<"Contains sensitive keywords">> ELSE <<>>)
  \o (IF f[7] >= 4 THEN <<"Too many dots in URL">> ELSE <<>>)
  \o (IF f[8] > 2 THEN <<"Multiple hyphens detected">> ELSE <<>>)

Reasons(f) ==
     (IF f[3] # 0 THEN <<"Contains '@' symbol">> ELSE <<>>)
  \o (IF f[6] = 0 THEN <<"Does not use HTTPS">> ELSE <<>>)
  \o (IF f[4] > 0 THEN <<"Contains sensitive keywords">> ELSE <<>>)
  \o (IF f[7] > 4 THEN <<"Too many dots in URL">> ELSE <<>>)
  \o (IF f[8] > 2 THEN <<"Multiple hyphens detected">> ELSE <<>>)

(* lines 178-182: what is written under "Why this result?" *)
Bullets(rs) ==
  IF rs # <<>> THEN rs ELSE <<"No strong suspicious patterns detected">>

----------------------------------------------------------------------------
(* What the user may type into the text input of line 99. *)

Schemes == { <<>>, <<"h", "t", "t", "p", ":", "/", "/">>, <<"h", "t", "t", "p", "s", ":", "/", "/">> }

Hosts ==
  { <<>>,
    <<"w", "w", "w", ".", "g", "o", "o", "g", "l", "e", ".", "c", "o", "m">>,
    <<"y", "o", "u", "t", "u", "b", "e", ".", "c", "o", "m">>,
    <<"t", "w", "i", "t", "t", "e", "r", ".", "c", "o", "m">>,
    <<"G", "i", "t", "H", "u", "b", ".", "c", "o", "m">>,
    <<"s", "e", "c", "u", "r", "e", "-", "l", "o", "g", "i", "n", "-", "p", "a", "y", "p", "a", "l", "-", "u", "p", "d", "a", "t", "e", ".", "c", "o", "m">>,
    <<"s", "e", "c", "u", "r", "e", "-", "l", "o", "g", "i", "n", "-", "p", "a", "y", "p", "a", "l", "-", "u", "p", "d", "a", "t", "e", ".", "c", "o", "m", ".", "g", "o", "o", "g", "l", "e", ".", "c", "o", "m">>,
    <<"g", "o", "o", "g", "l", "e", ".", "c", "o", "m", ".", "e", "v", "i", "l", ".", "n", "e", "t">>,
    <<"a", "-", "b", ".", "c", "-", "d", ".", "e", ".", "o", "r", "g">>,
    <<"m", "y", "-", "v", "e", "r", "i", "f", "y", "-", "s", "i", "t", "e", ".", "n", "e", "t">>,
    <<"a", "-", "b", "-", "c", "-", "d", ".", "l", "o", "g", "i", "n", ".", "x", ".", "y", ".", "z", ".", "c", "o", "m">>,
    <<"u", "s", "e", "r", "@", "b", "a", "n", "k", ".", "c", "o", "m">>,
    <<"[">> }

Paths == { <<>>, <<"/", "v", "e", "r", "i", "f", "y">>, <<"/", "s", "e", "a", "r", "c", "h", "?", "q", "=", "x">>, <<"/", "i", "n", "d", "e", "x", ".", "h", "t", "m", "l">> }

Blank == { <<" ">>, <<" ", " ">> }

URLs == {s \o h \o p : s \in Schemes, h \in Hosts, p \in Paths} \cup Blank

(* model.predict of line 150, in hundredths: the values around 0.3, 0.5, 0.6 *)
Probs == {0, 29, 30, 49, 50, 59, 60, 82}

----------------------------------------------------------------------------
(* The labels the page prints. *)

PathBlacklist == "Decision Path: Local phishing blacklist (Future Scope)"
PathTrusted   == "Decision Path: Trusted-domain whitelist"
PathPlatform  == "Decision Path: Platform-domain heuristic"
PathML        == "Decision Path: Machine Learning-based analysis"

NoPrev == [paths |-> {}, prob |-> {}, level |-> {}, flagged |-> FALSE]

Init ==
  /\ url_input = <<>>
  /\ pc = "idle"
  /\ domain = <<>>
  /\ features = <<>>
  /\ probability = {}
  /\ risk = ""
  /\ reasons = <<>>
  /\ out = <<>>
  /\ calls = 0
  /\ exc = ""
  /\ stages = <<>>
  /\ prev = NoPrev
  /\ clicks = 0

----------------------------------------------------------------------------
(* Reading the page: what a request has shown so far. *)

PathLabels == {PathBlacklist, PathTrusted, PathPlatform, PathML}

decisionPaths(o) ==
  {o[i][2] : i \in {j \in 1..Len(o) : o[j][1] = "info" /\ o[j][2] \in PathLabels}}

(* number of decision-path labels printed *)
labelCount(o) ==
  Cardinality({j \in 1..Len(o) : o[j][1] = "info" /\ o[j][2] \in PathLabels})

riskLevels(o) ==
  {"HIGH" : i \in {j \in 1..Len(o) : o[j][1] = "error"}}
  \cup {"LOW" : i \in {j \in 1..Len(o) : o[j][1] = "success"}}

shownProbability(o) ==
  {o[i][3] : i \in {j \in 1..Len(o) : o[j][1] = "write" /\ Len(o[j]) = 3}}

shownReasons(o) ==
  SelectSeq(o, LAMBDA m : m[1] = "bullet")

flagShown(o) ==
  \E j \in 1..Len(o) : o[j][1] = "warning" /\ o[j][2] = "Domain appears newly registered (simulated check)"

Summary ==
  [paths |-> decisionPaths(out), prob |-> probability,
   level |-> riskLevels(out), flagged |-> flagShown(out)]

----------------------------------------------------------------------------
(* any(x in domain for x in table), lines 114, 122, 130 *)
InTable(d, table) == \E e \in table : Contains(d, e)

(* Lines 104-109: the button is pressed with u in the text input.  The     *)
(* script reruns from the top, so the variables of the previous run are    *)
(* gone; prev keeps what the previous run had shown.                       *)
PredictBody(u, empty) ==
  /\ pc \in {"idle", "done"}
  /\ clicks < MaxClicks
  /\ clicks' = clicks + 1
  /\ prev' = IF pc = "done" THEN Summary ELSE prev
  /\ url_input' = u
  /\ features' = <<>>
  /\ probability' = {}
  /\ risk' = ""
  /\ reasons' = <<>>
  /\ calls' = 0
  /\ stages' = <<>>
  /\ IF empty
     THEN /\ out' = << <<"warning", "Please enter a valid URL.">> >>
          /\ pc' = "done"
          /\ domain' = <<>>
          /\ exc' = ""
     ELSE LET parsed == urlparse(u)
          IN  IF parsed.raised
              THEN /\ exc' = "ValueError"
                   /\ pc' = "done"
                   /\ out' = <<>>
                   /\ domain' = <<>>
              ELSE /\ exc' = ""
                   /\ pc' = "layer0"
                   /\ out' = <<>>
                   /\ domain' = Lower(parsed.netloc)

Predict_nostrip(u) == PredictBody(u, u = <<>>)

Predict(u) == PredictBody(u, Strip(u) = <<>>)

(* A rule layer: on a hit print the verdict and the path and st.stop(),     *)
(* otherwise fall through to the next layer.                               *)
RuleLayer(here, hit, verdict, label, stop, next) ==
  /\ pc = here
  /\ stages' = Append(stages, here)
  /\ IF hit
     THEN /\ out' = out \o << verdict, <<"info", label>> >>
          /\ pc' = IF stop THEN "done" ELSE next
     ELSE /\ out' = out
          /\ pc' = next
  /\ UNCHANGED <<url_input, domain, features, probability, risk, reasons,
                 calls, exc, prev, clicks>>

(* Layer 0, lines 114-117 *)
Layer0_exact ==
  RuleLayer("layer0", domain \in LOCAL_PHISHING_BLACKLIST,
            <<"error", "HIGH RISK - URL found in phishing blacklist">>,
            PathBlacklist, TRUE, "layer1")

Layer0 ==
  RuleLayer("layer0", InTable(domain, LOCAL_PHISHING_BLACKLIST),
            <<"error", "HIGH RISK - URL found in phishing blacklist">>,
            PathBlacklist, TRUE, "layer1")

(* Layer 1, lines 122-125 *)
Layer1_nostop ==
  RuleLayer("layer1", InTable(domain, TRUSTED_DOMAINS),
            <<"success", "LOW RISK - Trusted domain detected">>,
            PathTrusted, FALSE, "layer2")

Layer1 ==
  RuleLayer("layer1", InTable(domain, TRUSTED_DOMAINS),
            <<"success", "LOW RISK - Trusted domain detected">>,
            PathTrusted, TRUE, "layer2")

(* Layer 2, lines 130-133 *)
Layer2 ==
  RuleLayer("layer2", InTable(domain, PLATFORM_DOMAINS),
            <<"success", "LOW RISK - Known platform domain">>,
            PathPlatform, TRUE, "layer25")

(* Layer 2.5, lines 138-140: a warning, and the script goes on *)
Layer25Body(next) ==
  /\ pc = "layer25"
  /\ stages' = Append(stages, "layer25")
  /\ IF is_new_domain(domain)
     THEN /\ out' = out \o
                 << <<"warning", "Domain appears newly registered (simulated check)">>,
                    <<"info", "Future Scope: WHOIS-based domain age verification">> >>
          /\ pc' = next
     ELSE /\ out' = out
          /\ pc' = "layer3"
  /\ UNCHANGED <<url_input, domain, features, probability, risk, reasons,
                 calls, exc, prev, clicks>>

Layer25_terminal == Layer25Body("done")

Layer25 == Layer25Body("layer3")

(* Layer 3, lines 145-159: the path label, the features, one pass through  *)
(* scaler.transform and model.predict, the risk level and the result.      *)
Layer3 ==
  /\ pc = "layer3"
  /\ stages' = Append(stages, "layer3")
  /\ LET fx == extract_features(url_input)
     IN  IF fx.raised
         THEN /\ exc' = "ValueError"
              /\ pc' = "done"
              /\ out' = Append(out, <<"info", PathML>>)
              /\ UNCHANGED <<features, probability, risk, calls>>
         ELSE \E p \in Probs :
              /\ features' = fx.vec
              /\ calls' = calls + 1
              /\ probability' = {p}
              /\ risk' = get_risk_level(p)
              /\ out' = out \o
                   << <<"info", PathML>>,
                      <<"subheader", "Prediction Result">>,
                      <<"write", "Phishing Probability", p>>,
                      IF get_risk_level(p) = "HIGH RISK"
                      THEN <<"error", "HIGH RISK - This website is potentially phishing">>
                      ELSE <<"success", "LOW RISK - This website appears safe">> >>
              /\ pc' = "explain"
              /\ exc' = exc
  /\ UNCHANGED <<url_input, domain, reasons, prev, clicks>>

(* Explainability, lines 164-182 *)
Explain ==
  /\ pc = "explain"
  /\ stages' = Append(stages, "explain")
  /\ reasons' = Reasons(features)
  /\ out' = out \o << <<"subheader", "Why this result?">> >>
                \o [i \in 1..Len(Bullets(Reasons(features))) |->
                      <<"bullet", Bullets(Reasons(features))[i]>>]
  /\ pc' = "done"
  /\ UNCHANGED <<url_input, domain, features, probability, risk, calls, exc,
                 prev, clicks>>

Next ==
  \/ \E u \in URLs : Predict(u)
  \/ Layer0
  \/ Layer1
  \/ Layer2
  \/ Layer25
  \/ Layer3
  \/ Explain

Spec == Init /\ [][Next]_vars

(* extract_features called on its own, lines 61-86, on any non-empty string *)
ExtractCall(u) ==
  /\ pc \in {"idle", "extract"}
  /\ u # <<>>
  /\ url_input' = u
  /\ features' = extract_features(u).vec
  /\ exc' = IF extract_features(u).raised THEN "ValueError" ELSE ""
  /\ pc' = "extract"
  /\ UNCHANGED <<domain, probability, risk, reasons, out, calls, stages, prev,
                 clicks>>

ExtractNext == \E u \in URLs : ExtractCall(u)

ExtractSpec == Init /\ [][ExtractNext]_vars

----------------------------------------------------------------------------
(* Properties *)

StageOrder == <<"layer0", "layer1", "layer2", "layer25", "layer3", "explain">>

Reached(stage) == \E i \in 1..Len(stages) : stages[i] = stage

(* a request with a non-blank URL is being or has been processed *)
Submitted == clicks > 0 /\ Strip(url_input) # <<>>

Finished == Submitted /\ pc = "done"

FirstStage(d) ==
  IF InTable(d, LOCAL_PHISHING_BLACKLIST) THEN PathBlacklist
  ELSE IF InTable(d, TRUSTED_DOMAINS) THEN PathTrusted
  ELSE IF InTable(d, PLATFORM_DOMAINS) THEN PathPlatform
  ELSE PathML

(* C1: the stages run in the order blacklist, trusted, platform, (advisory), *)
(* ML, and the path printed is the one of the first stage whose table has  *)
(* an entry inside the lower-cased host: BLACKLIST before TRUSTED before   *)
(* PLATFORM before ML.                                                     *)
C1_FirstMatchWins ==
  (Submitted /\ exc = "") =>
     /\ stages = SubSeq(StageOrder, 1, Len(stages))
     /\ pc = "done" => decisionPaths(out) = {FirstStage(domain)}
     /\ (pc = "done" /\ InTable(domain, LOCAL_PHISHING_BLACKLIST))
           => PathTrusted \notin decisionPaths(out)
     /\ (pc = "done" /\ InTable(domain, TRUSTED_DOMAINS))
           => PathPlatform \notin decisionPaths(out)

C1_Witness ==
  /\ Finished
  /\ InTable(domain, LOCAL_PHISHING_BLACKLIST)
  /\ InTable(domain, TRUSTED_DOMAINS)
  /\ decisionPaths(out) = {PathBlacklist}

NoClassifier ==
  /\ calls = 0
  /\ probability = {}
  /\ shownProbability(out) = {}
  /\ ~Reached("layer3")

(* C2 as stated: every host with a trusted entry inside it ends on the     *)
(* TRUSTED path with LOW risk and the classifier is never invoked.         *)
C2_TrustedAlways ==
  (Submitted /\ InTable(domain, TRUSTED_DOMAINS)) =>
     /\ NoClassifier
     /\ pc = "done" => /\ decisionPaths(out) = {PathTrusted}
                       /\ riskLevels(out) = {"LOW"}

(* C2 amended: a host with a trusted entry and no blacklist entry inside it *)
(* ends on the TRUSTED path with LOW risk; with or without a blacklist     *)
(* entry the classifier is never invoked and no probability is produced.   *)
C2_TrustedShortCircuit ==
  (Submitted /\ InTable(domain, TRUSTED_DOMAINS)) =>
     /\ NoClassifier
     /\ (pc = "done" /\ ~InTable(domain, LOCAL_PHISHING_BLACKLIST))
           => /\ decisionPaths(out) = {PathTrusted}
              /\ riskLevels(out) = {"LOW"}

C2_Witness ==
  /\ Finished
  /\ url_input = <<"h", "t", "t", "p", "s", ":", "/", "/", "w", "w", "w", ".", "g", "o", "o", "g", "l", "e", ".", "c", "o", "m", "/", "s", "e", "a", "r", "c", "h", "?", "q", "=", "x">>
  /\ decisionPaths(out) = {PathTrusted}
  /\ calls = 0

(* C3: an input that is, or contains, a blacklist entry ends on the        *)
(* BLACKLIST path with HIGH risk, the classifier not invoked and no        *)
(* probability shown.                                                      *)
C3_BlacklistInput ==
  (Finished /\ InTable(url_input, LOCAL_PHISHING_BLACKLIST)) =>
     /\ decisionPaths(out) = {PathBlacklist}
     /\ riskLevels(out) = {"HIGH"}
     /\ NoClassifier

(* C4: a URL that is empty after trimming ends in the prompt to re-enter   *)
(* and nothing else: no stage runs, no features, no classifier call, no    *)
(* path, no risk level, no probability.                                    *)
C4_EmptyInput ==
  (clicks > 0 /\ Strip(url_input) = <<>>) =>
     /\ pc = "done"
     /\ out = << <<"warning", "Please enter a valid URL.">> >>
     /\ stages = <<>>
     /\ features = <<>>
     /\ NoClassifier
     /\ decisionPaths(out) = {}
     /\ riskLevels(out) = {}
     /\ exc = ""

C4_Witness ==
  /\ clicks > 0
  /\ url_input = <<" ", " ">>
  /\ pc = "done"
  /\ out # <<>>

OnMLPath == Submitted /\ pc \in {"explain", "done"} /\ probability # {}

(* C5 as stated: the 3-tier policy, below 0.3 LOW, from 0.3 and below 0.6  *)
(* MEDIUM, from 0.6 HIGH.                                                  *)
C5_ThreeTier ==
  OnMLPath =>
    \A p \in probability :
       /\ p < 30 => riskLevels(out) = {"LOW"}
       /\ (p >= 30 /\ p < 60) => riskLevels(out) = {"MEDIUM"}
       /\ p >= 60 => riskLevels(out) = {"HIGH"}

(* C5 amended: the 2-tier policy, below 0.5 LOW and from 0.5 HIGH; so 0.3  *)
(* is LOW, exactly 0.5 is HIGH and exactly 0.6 is HIGH.                    *)
C5_TwoTier ==
  OnMLPath =>
    \A p \in probability :
       /\ p < 50 => (risk = "LOW RISK" /\ riskLevels(out) = {"LOW"})
       /\ p >= 50 => (risk = "HIGH RISK" /\ riskLevels(out) = {"HIGH"})

C5_Witness ==
  /\ OnMLPath
  /\ probability = {50}
  /\ riskLevels(out) = {"HIGH"}
  /\ prev.prob = {30}
  /\ prev.level = {"LOW"}

(* C6: the "new domain" stage never ends a request, the ML stage follows   *)
(* it; and two requests with the same classifier probability show the same *)
(* risk level whether or not the flag was raised.                          *)
C6_AdvisoryOnly ==
  /\ (Finished /\ exc = "" /\ Reached("layer25")) => Reached("layer3")
  /\ (Finished /\ PathML \in decisionPaths(out) /\ PathML \in prev.paths
        /\ prev.prob = probability)
       => prev.level = riskLevels(out)

C6_Witness ==
  /\ Finished
  /\ PathML \in decisionPaths(out)
  /\ PathML \in prev.paths
  /\ prev.prob = probability
  /\ prev.flagged
  /\ ~flagShown(out)
  /\ prev.level = riskLevels(out)

Scenario2 == <<"h", "t", "t", "p", ":", "/", "/", "s", "e", "c", "u", "r", "e", "-", "l", "o", "g", "i", "n", "-", "p", "a", "y", "p", "a", "l", "-", "u", "p", "d", "a", "t", "e", ".", "c", "o", "m", "/", "v", "e", "r", "i", "f", "y">>

(* C7 as stated: for http://secure-login-paypal-update.com/verify the path *)
(* is ML with one classifier call and, at probability 0.82, HIGH risk with *)
(* the reasons "does not use HTTPS" and "contains sensitive words".        *)
C7_Scenario2ML ==
  (Finished /\ url_input = Scenario2) =>
     /\ decisionPaths(out) = {PathML}
     /\ calls = 1
     /\ probability = {82} =>
          /\ riskLevels(out) = {"HIGH"}
          /\ <<"bullet", "Does not use HTTPS">> \in {out[i] : i \in 1..Len(out)}
          /\ <<"bullet", "Contains sensitive keywords">> \in {out[i] : i \in 1..Len(out)}

(* C7 amended: for http://secure-login-paypal-update.com/verify the path   *)
(* is BLACKLIST, the risk level is HIGH, the classifier is not invoked and *)
(* no reasons are shown.                                                   *)
C7_Scenario2Blacklist ==
  (Finished /\ url_input = Scenario2) =>
     /\ decisionPaths(out) = {PathBlacklist}
     /\ riskLevels(out) = {"HIGH"}
     /\ NoClassifier
     /\ shownReasons(out) = <<>>
     /\ reasons = <<>>

C7_Witness ==
  /\ Finished
  /\ url_input = Scenario2
  /\ riskLevels(out) = {"HIGH"}

Shown == {out[i] : i \in 1..Len(out)}

ReasonOrder ==
  <<"Contains '@' symbol", "Does not use HTTPS", "Contains sensitive keywords",
    "Too many dots in URL", "Multiple hyphens detected">>

Pos(r) == CHOOSE k \in 1..Len(ReasonOrder) : ReasonOrder[k] = r

(* C8: after the explanation step a reason is shown exactly when its       *)
(* predicate holds ('@' present, not HTTPS, sensitive words > 0, dots > 4, *)
(* hyphens > 2), the reasons come in that order, something is always       *)
(* shown, and the default line is shown exactly when no predicate holds.   *)
C8_Reasons ==
  (Finished /\ Reached("explain")) =>
    LET b == shownReasons(out)
        holds == <<features[3] = 1, features[6] = 0, features[4] > 0,
                   features[7] > 4, features[8] > 2>>
    IN  /\ b # <<>>
        /\ \A k \in 1..5 : (<<"bullet", ReasonOrder[k]>> \in Shown) <=> holds[k]
        /\ (<<"bullet", "No strong suspicious patterns detected">> \in Shown)
             <=> (\A k \in 1..5 : ~holds[k])
        /\ (\A k \in 1..5 : ~holds[k]) => Len(b) = 1
        /\ (\E k \in 1..5 : holds[k]) =>
              /\ reasons = [i \in 1..Len(b) |-> b[i][2]]
              /\ \A i, j \in 1..Len(b) : i < j => Pos(b[i][2]) < Pos(b[j][2])

C8_Witness ==
  /\ Finished
  /\ Reached("explain")
  /\ features[7] = 4
  /\ features[8] = 2
  /\ <<"bullet", "No strong suspicious patterns detected">> \in Shown
  /\ prev.flagged

(* C9: extract_features fails on no non-empty string and returns 13        *)
(* fields, each >= 0, with valid_url, has_at_symbol and is_https 0 or 1.   *)
C9_TotalExtract ==
  pc = "extract" =>
     /\ exc = ""
     /\ Len(features) = 13
     /\ \A k \in 1..13 : features[k] >= 0
     /\ \A k \in {2, 3, 6} : features[k] \in {0, 1}

(* C10: a request with a non-blank URL ends having printed exactly one     *)
(* decision-path label; the classifier runs at most once, and it runs, and *)
(* a probability and reasons are shown, exactly when that label is ML.     *)
C10_OneVerdict ==
  Finished =>
     /\ labelCount(out) = 1
     /\ calls <= 1
     /\ calls = 1 <=> decisionPaths(out) = {PathML}
     /\ shownProbability(out) # {} <=> decisionPaths(out) = {PathML}
     /\ shownReasons(out) # <<>> <=> decisionPaths(out) = {PathML}
     /\ Cardinality(riskLevels(out)) = 1

(* the same, for the requests that raised no exception *)
OneVerdictUnlessRaised == (Finished /\ exc = "") => C10_OneVerdict

Raised == Finished /\ exc = "ValueError"

====
